---- MODULE Spec2Model ----
(***************************************************************************)
(* JSONDocumentChunking.chunk                                              *)
(* (code/backend/batch/utilities/document_chunking/json.py).               *)
(*                                                                         *)
(* Text is a sequence of one-character strings.  Document contents range   *)
(* over the characters  { } [ ] " : , space 0..9 a b x n o t j s ; over    *)
(* these characters json.loads accepts exactly objects, arrays, strings    *)
(* without escapes and non-negative integers without leading zeros         *)
(* (true, false, null, floats, signs and escapes cannot be spelled).       *)
(***************************************************************************)
EXTENDS Integers, Sequences, FiniteSets, TLC

\* ------------------------------------------------------------ bounds
\* Largest number of documents in the list handed to chunk.
MaxDocs == 2
\* Number of threads calling chunk concurrently (SpecConc).
NThreads == 2

\* ------------------------------------------------------------ text
DQ == "\""
SQ == "'"
Digits == <<"0", "1", "2", "3", "4", "5", "6", "7", "8", "9">>

IsDigit(c) == \E d \in 1..10 : Digits[d] = c

DigitVal(c) == (CHOOSE d \in 1..10 : Digits[d] = c) - 1

Rep(c, n) == [i \in 1..n |-> c]

\* ------------------------------------------------------------ JSON values
\* A parsed value: t is its Python type, v its payload.  A dict is the
\* sequence of its items in insertion order, keys distinct.
MkInt(n) == [t |-> "int", v |-> n]
MkStr(s) == [t |-> "str", v |-> s]
MkList(xs) == [t |-> "list", v |-> xs]
MkDict(items) == [t |-> "dict", v |-> items]
EmptyDict == MkDict(<<>>)
NoValue == [t |-> "none", v |-> 0]

KeyIndex(items, k) ==
    IF \E i \in 1..Len(items) : items[i].k = k
    THEN CHOOSE i \in 1..Len(items) : items[i].k = k
    ELSE 0

\* d[k] = val on a dict: an existing key keeps its place, a new one goes last.
DictSet(d, k, val) ==
    LET i == KeyIndex(d.v, k)
    IN  IF i = 0
        THEN MkDict(Append(d.v, [k |-> k, v |-> val]))
        ELSE MkDict([d.v EXCEPT ![i] = [k |-> k, v |-> val]])

\* ------------------------------------------------------------ json.loads
ParseFail == [ok |-> FALSE, val |-> NoValue, pos |-> 0]
ParseOk(val, pos) == [ok |-> TRUE, val |-> val, pos |-> pos]

RECURSIVE SkipWs(_, _)
SkipWs(s, i) ==
    IF i <= Len(s) /\ s[i] = " " THEN SkipWs(s, i + 1) ELSE i

\* Index of the closing quote of a string whose body starts at i; 0 if none.
RECURSIVE ScanString(_, _)
ScanString(s, i) ==
    IF i > Len(s) THEN 0
    ELSE IF s[i] = DQ THEN i
    ELSE ScanString(s, i + 1)

\* Index after the run of digits starting at i.
RECURSIVE ScanDigits(_, _)
ScanDigits(s, i) ==
    IF i <= Len(s) /\ IsDigit(s[i]) THEN ScanDigits(s, i + 1) ELSE i

RECURSIVE DigitsToInt(_, _, _, _)
DigitsToInt(s, i, j, acc) ==
    IF i >= j THEN acc ELSE DigitsToInt(s, i + 1, j, 10 * acc + DigitVal(s[i]))

\* A number starts at i: 0 alone, or a run of digits starting with 1..9.
ParseNumber(s, i) ==
    IF s[i] = "0" THEN ParseOk(MkInt(0), i + 1)
    ELSE LET j == ScanDigits(s, i)
         IN  ParseOk(MkInt(DigitsToInt(s, i, j, 0)), j)

\* The string whose opening quote is at i.
ParseString(s, i) ==
    LET j == ScanString(s, i + 1)
    IN  IF j = 0 THEN ParseFail
        ELSE ParseOk(MkStr(SubSeq(s, i + 1, j - 1)), j + 1)

RECURSIVE ParseValue(_, _)
RECURSIVE ParseMembers(_, _, _)
RECURSIVE ParseElements(_, _, _)

\* The value starting at or after position i0 (whitespace skipped).
ParseValue(s, i0) ==
    LET i == SkipWs(s, i0)
    IN  IF i > Len(s) THEN ParseFail
        ELSE IF s[i] = "{"
        THEN LET j == SkipWs(s, i + 1)
             IN  IF j <= Len(s) /\ s[j] = "}"
                 THEN ParseOk(EmptyDict, j + 1)
                 ELSE ParseMembers(s, j, EmptyDict)
        ELSE IF s[i] = "["
        THEN LET j == SkipWs(s, i + 1)
             IN  IF j <= Len(s) /\ s[j] = "]"
                 THEN ParseOk(MkList(<<>>), j + 1)
                 ELSE ParseElements(s, j, <<>>)
        ELSE IF s[i] = DQ THEN ParseString(s, i)
        ELSE IF IsDigit(s[i]) THEN ParseNumber(s, i)
        ELSE ParseFail

\* Members of an object from position i (a key's opening quote is expected),
\* acc the dict built so far; a repeated key overwrites.
ParseMembers(s, i, acc) ==
    IF i > Len(s) \/ s[i] # DQ THEN ParseFail
    ELSE
    LET key == ParseString(s, i)
        c == SkipWs(s, key.pos)
    IN  IF ~key.ok THEN ParseFail
        ELSE IF c > Len(s) \/ s[c] # ":" THEN ParseFail
        ELSE
        LET val == ParseValue(s, c + 1)
            e == SkipWs(s, val.pos)
            acc1 == DictSet(acc, key.val.v, val.val)
        IN  IF ~val.ok THEN ParseFail
            ELSE IF e > Len(s) THEN ParseFail
            ELSE IF s[e] = "}" THEN ParseOk(acc1, e + 1)
            ELSE IF s[e] = "," THEN ParseMembers(s, SkipWs(s, e + 1), acc1)
            ELSE ParseFail

\* Elements of an array from position i, acc the elements so far.
ParseElements(s, i, acc) ==
    LET val == ParseValue(s, i)
        e == SkipWs(s, val.pos)
    IN  IF ~val.ok THEN ParseFail
        ELSE IF e > Len(s) THEN ParseFail
        ELSE IF s[e] = "]" THEN ParseOk(MkList(Append(acc, val.val)), e + 1)
        ELSE IF s[e] = "," THEN ParseElements(s, e + 1, Append(acc, val.val))
        ELSE ParseFail

\* json.loads(s): one value, whitespace around it, nothing after it.
\* ok = FALSE stands for json.JSONDecodeError.
JsonLoads(s) ==
    LET r == ParseValue(s, 1)
    IN  IF r.ok /\ SkipWs(s, r.pos) = Len(s) + 1 THEN r ELSE ParseFail

\* ------------------------------------------------------------ str, json.dumps
RECURSIVE IntToText(_)
IntToText(n) ==
    IF n < 10 THEN <<Digits[n + 1]>>
    ELSE IntToText(n \div 10) \o <<Digits[(n % 10) + 1]>>

\* The text of a value with strings quoted by q: q = ' is Python's str() of
\* the value (repr of its parts), q = " is json.dumps of it.
RECURSIVE Render(_, _)
RECURSIVE RenderItems(_, _, _)
RECURSIVE RenderElements(_, _, _)
Render(val, q) ==
    IF val.t = "int" THEN IntToText(val.v)
    ELSE IF val.t = "str" THEN <<q>> \o val.v \o <<q>>
    ELSE IF val.t = "list" THEN <<"[">> \o RenderElements(val.v, 1, q) \o <<"]">>
    ELSE <<"{">> \o RenderItems(val.v, 1, q) \o <<"}">>

RenderItems(items, i, q) ==
    IF i > Len(items) THEN <<>>
    ELSE (IF i > 1 THEN <<",", " ">> ELSE <<>>)
         \o <<q>> \o items[i].k \o <<q, ":", " ">>
         \o Render(items[i].v, q)
         \o RenderItems(items, i + 1, q)

RenderElements(xs, i, q) ==
    IF i > Len(xs) THEN <<>>
    ELSE (IF i > 1 THEN <<",", " ">> ELSE <<>>)
         \o Render(xs[i], q)
         \o RenderElements(xs, i + 1, q)

\* str(x) of a dict, list, int; of a top-level str it is the text itself.
PyStr(val) == IF val.t = "str" THEN val.v ELSE Render(val, SQ)

JsonDumps(val) == Render(val, DQ)

\* len(x): items of a dict, elements of a list, characters of a str.
PyLen(val) == Len(val.v)

\* ------------------------------------------------------------ RecursiveJsonSplitter
\* langchain's RecursiveJsonSplitter, the external splitter chunk delegates to.
JsonSize(val) == Len(JsonDumps(val))

\* min_chunk_size when none is given: max(max_chunk_size - 200, 50).
MinChunkSize(max_chunk_size) ==
    IF max_chunk_size - 200 > 50 THEN max_chunk_size - 200 ELSE 50

\* _set_nested_dict(d, path, value), path non-empty: setdefault along the
\* path, then the assignment at its last key.
RECURSIVE SetNestedDict(_, _, _)
SetNestedDict(d, path, value) ==
    IF Len(path) = 1 THEN DictSet(d, path[1], value)
    ELSE LET i == KeyIndex(d.v, path[1])
             sub == IF i = 0 THEN EmptyDict ELSE d.v[i].v
         IN  DictSet(d, path[1], SetNestedDict(sub, Tail(path), value))

SetLast(chunks, d) == [chunks EXCEPT ![Len(chunks)] = d]

\* _json_split(data, current_path, chunks): the chunks list after the call.
\* SplitItems is its loop over data.items(), from item i on.
RECURSIVE JsonSplit(_, _, _, _)
RECURSIVE SplitItems(_, _, _, _, _)
JsonSplit(data, current_path, chunks, max_chunk_size) ==
    IF data.t = "dict"
    THEN SplitItems(data.v, 1, current_path, chunks, max_chunk_size)
    ELSE SetLast(chunks, SetNestedDict(chunks[Len(chunks)], current_path, data))

SplitItems(items, i, current_path, chunks, max_chunk_size) ==
    IF i > Len(items) THEN chunks
    ELSE
    LET key == items[i].k
        value == items[i].v
        new_path == Append(current_path, key)
        last == chunks[Len(chunks)]
        chunk_sz == JsonSize(last)
        size == JsonSize(MkDict(<<[k |-> key, v |-> value]>>))
        remaining == max_chunk_size - chunk_sz
    IN  IF size < remaining
        THEN SplitItems(items, i + 1, current_path,
                        SetLast(chunks, SetNestedDict(last, new_path, value)),
                        max_chunk_size)
        ELSE SplitItems(items, i + 1, current_path,
                        JsonSplit(value, new_path,
                                  IF chunk_sz >= MinChunkSize(max_chunk_size)
                                  THEN Append(chunks, EmptyDict)
                                  ELSE chunks,
                                  max_chunk_size),
                        max_chunk_size)

\* split_json(json_data): a value that is no dict is stored at the empty path,
\* whose last key does not exist (IndexError, ok = FALSE); a trailing empty
\* chunk is dropped.
SplitJson(json_data, max_chunk_size) ==
    IF json_data.t # "dict" THEN [ok |-> FALSE, chunks |-> <<>>]
    ELSE LET chunks == JsonSplit(json_data, <<>>, <<EmptyDict>>, max_chunk_size)
         IN  [ok |-> TRUE,
              chunks |-> IF chunks[Len(chunks)] = EmptyDict
                         THEN SubSeq(chunks, 1, Len(chunks) - 1)
                         ELSE chunks]

\* ------------------------------------------------------------ SourceDocument
\* A document the caller passes: chunk reads its content (line 17) and its
\* source (line 19).
InputDocument(content, source) ==
    [content |-> content, source |-> source, metadata |-> <<>>]

\* SourceDocument.from_metadata(content=, document_url=, metadata=, idx=) of
\* lines 28-33: the document is what the call binds.
FromMetadata(content, document_url, metadata, idx) ==
    [content |-> content, document_url |-> document_url,
     metadata |-> metadata, idx |-> idx]

\* {"offset": chunk_offset} (line 31).
OffsetMetadata(offset) == [offset |-> offset]

\* ------------------------------------------------------------ inputs
Sources == {"u1", "u2"}
ChunkSizes == {10, 50}

C_Empty == <<"{", "}">>
C_Head == <<"{", DQ, "a", DQ, ":">>
C_Tail == <<"1", "}">>
C_Small == C_Head \o C_Tail
C_Bad == <<"{", "n", "o", "t", " ", "j", "s", "o", "n">>
C_Nested == <<"{", DQ, "a", DQ, ":", "{", "}", "}">>
C_Array == <<"[", "1", "]">>
C_Spaced == <<"{", " ", DQ, "b", DQ, " ", ":", " ", DQ, "x", DQ, ",", " ",
              DQ, "a", DQ, ":", "{", DQ, "b", DQ, ":", "2", "}", "}">>
C_LongA == <<"{", DQ, "a", DQ, ":", DQ>> \o Rep("x", 41)
           \o <<DQ, ",", DQ, "b", DQ, ":", DQ>> \o Rep("x", 20)
C_LongB == Rep("x", 21) \o <<DQ, ",", DQ, "n", DQ, ":", "1", "0", "}">>
C_Long == C_LongA \o C_LongB

Contents ==
    {C_Empty, C_Head, C_Tail, C_Small, C_Bad, C_Nested, C_Array, C_Spaced,
     C_LongA, C_LongB, C_Long}

DocPool == {InputDocument(c, u) : c \in Contents, u \in Sources}

DocLists == UNION {[1..n -> DocPool] : n \in 0..MaxDocs}

Calls == {[docs |-> d, cs |-> c] : d \in DocLists, c \in ChunkSizes}

\* The calls of the concurrent specification.
ConcCalls ==
    {[docs |-> <<InputDocument(C_Head, "u1"), InputDocument(C_Tail, "u2")>>, cs |-> 10],
     [docs |-> <<InputDocument(C_Long, "u2")>>, cs |-> 50],
     [docs |-> <<InputDocument(C_Bad, "u1")>>, cs |-> 50],
     [docs |-> <<>>, cs |-> 10]}

\* ------------------------------------------------------------ state
Threads == 1..NThreads

\* Lists live on the heap and are named by references.  InRef(t) is the list
\* the caller of thread t passes; FreshRef(t) is the list a [] in t's call
\* creates.
NoRef == 0
InRef(t) == t
FreshRef(t) == NThreads + t
Refs == 1..(2 * NThreads)

NoExc == [type |-> "", line |-> 0]

VARIABLES
    pc,                     \* the statement each thread is at
    heap,                   \* the list each reference names
    live,                   \* the references that name a list
    input,                  \* the caller's list as it was at the call
    chunk_size,             \* chunking.chunk_size
    documents,              \* the reference the name `documents` is bound to
    full_document_content,
    document_url,
    json_data,
    chunked_content_list,
    chunk_offset,
    iter_pos,               \* how many items enumerate has yielded
    idx,
    chunked_content,
    result,                 \* the reference returned, NoRef before
    exc,                    \* the exception that left chunk, NoExc if none
    splitter_calls,         \* how many times split_json was called
    overlapped              \* the thread ran a statement while another thread
                            \* was inside chunk

vars == <<pc, heap, live, input, chunk_size, documents, full_document_content,
          document_url, json_data, chunked_content_list, chunk_offset,
          iter_pos, idx, chunked_content, result, exc, splitter_calls,
          overlapped>>

Init ==
    /\ pc = [t \in Threads |-> "idle"]
    /\ heap = [r \in Refs |-> <<>>]
    /\ live = {}
    /\ input = [t \in Threads |-> <<>>]
    /\ chunk_size = [t \in Threads |-> 0]
    /\ documents = [t \in Threads |-> NoRef]
    /\ full_document_content = [t \in Threads |-> <<>>]
    /\ document_url = [t \in Threads |-> ""]
    /\ json_data = [t \in Threads |-> NoValue]
    /\ chunked_content_list = [t \in Threads |-> <<>>]
    /\ chunk_offset = [t \in Threads |-> 0]
    /\ iter_pos = [t \in Threads |-> 0]
    /\ idx = [t \in Threads |-> 0]
    /\ chunked_content = [t \in Threads |-> NoValue]
    /\ result = [t \in Threads |-> NoRef]
    /\ exc = [t \in Threads |-> NoExc]
    /\ splitter_calls = [t \in Threads |-> 0]
    /\ overlapped = [t \in Threads |-> FALSE]

\* ------------------------------------------------------------ chunk
\* The text parsed before the source URL is read.
StatementsParseFirst == <<"L16", "L20", "L19", "L22", "L24", "L26">>

\* The statements of chunk before its loop, in the order they run, by line.
Statements == <<"L16", "L19", "L20", "L22", "L24", "L26">>

After(l) == Statements[(CHOOSE i \in 1..Len(Statements) : Statements[i] = l) + 1]

\* A join that puts a space between the contents.
RECURSIVE JoinWithSpace(_)
JoinWithSpace(docs) ==
    IF docs = <<>> THEN <<>>
    ELSE IF Len(docs) = 1 THEN docs[1].content
    ELSE docs[1].content \o <<" ">> \o JoinWithSpace(Tail(docs))

\* "".join(map(lambda document: str(document.content), documents))
RECURSIVE Join(_)
Join(docs) ==
    IF docs = <<>> THEN <<>> ELSE docs[1].content \o Join(Tail(docs))

\* documents[-1].source.
LastSource(docs) == docs[Len(docs)].source

\* documents[0].source of a non-empty list.
FirstSource(docs) == docs[1].source

\* documents.clear(): the name stays bound to the caller's list.
ClearedDocuments(t) == InRef(t)

\* The list the name `documents` is bound to by `documents = []` (line 24):
\* a new one.
NewDocuments(t) == FreshRef(t)

\* json.dumps(chunked_content).
ChunkTextJson(chunk) == JsonDumps(chunk)

\* content=str(chunked_content) (line 29).
ChunkText(chunk) == PyStr(chunk)

\* The amount line 36 adds to chunk_offset.
OffsetStep(chunk) == PyLen(chunk)

\* One chunk_offset for every invocation (an attribute of a shared object).
SharedOffsetCell(t) == 1

\* The cell holding chunk_offset: a local variable of the invocation.
OffsetCell(t) == t

\* enumerate(..., start=1).
EnumIndexFromOne(pos) == pos + 1

\* enumerate's index of the item it yields after pos items.
EnumIndex(pos) == pos

\* Thread t runs a statement; overlapped records whether another thread is
\* inside chunk at that moment.
Ran(t) ==
    overlapped' = [overlapped EXCEPT
                       ![t] = @ \/ \E u \in Threads \ {t} :
                                       pc[u] \notin {"idle", "done", "raised"}]

Raise(t, type, line) ==
    /\ pc' = [pc EXCEPT ![t] = "raised"]
    /\ exc' = [exc EXCEPT ![t] = [type |-> type, line |-> line]]

\* A caller passes a list and a chunking.chunk_size, one of calls.
Call(t, calls) ==
    /\ pc[t] = "idle"
    /\ \E c \in calls :
           /\ heap' = [heap EXCEPT ![InRef(t)] = c.docs]
           /\ input' = [input EXCEPT ![t] = c.docs]
           /\ chunk_size' = [chunk_size EXCEPT ![t] = c.cs]
    /\ pc' = [pc EXCEPT ![t] = Statements[1]]
    /\ live' = live \cup {InRef(t)}
    /\ documents' = [documents EXCEPT ![t] = InRef(t)]
    /\ UNCHANGED <<full_document_content, document_url, json_data,
                   chunked_content_list, chunk_offset, iter_pos, idx,
                   chunked_content, result, exc, splitter_calls, overlapped>>

\* Lines 16-18.
JoinContent(t) ==
    /\ pc[t] = "L16"
    /\ Ran(t)
    /\ full_document_content' =
           [full_document_content EXCEPT ![t] = Join(heap[documents[t]])]
    /\ pc' = [pc EXCEPT ![t] = After("L16")]
    /\ UNCHANGED <<heap, live, input, chunk_size, documents, document_url,
                   json_data, chunked_content_list, chunk_offset, iter_pos,
                   idx, chunked_content, result, exc, splitter_calls>>

\* Line 19 behind a guard that returns a new empty list for an empty input.
ReadUrlGuarded(t) ==
    /\ pc[t] = "L19"
    /\ Ran(t)
    /\ IF heap[documents[t]] = <<>>
       THEN /\ heap' = [heap EXCEPT ![FreshRef(t)] = <<>>]
            /\ live' = live \cup {FreshRef(t)}
            /\ result' = [result EXCEPT ![t] = FreshRef(t)]
            /\ pc' = [pc EXCEPT ![t] = "done"]
            /\ UNCHANGED document_url
       ELSE /\ document_url' =
                   [document_url EXCEPT ![t] = FirstSource(heap[documents[t]])]
            /\ pc' = [pc EXCEPT ![t] = After("L19")]
            /\ UNCHANGED <<heap, live, result>>
    /\ UNCHANGED <<input, chunk_size, documents, full_document_content,
                   json_data, chunked_content_list, chunk_offset, iter_pos,
                   idx, chunked_content, exc, splitter_calls>>

\* Line 19: documents[0] of an empty list raises IndexError.
ReadUrl(t) ==
    /\ pc[t] = "L19"
    /\ Ran(t)
    /\ IF heap[documents[t]] = <<>>
       THEN /\ Raise(t, "IndexError", 19)
            /\ UNCHANGED document_url
       ELSE /\ document_url' =
                   [document_url EXCEPT ![t] = FirstSource(heap[documents[t]])]
            /\ pc' = [pc EXCEPT ![t] = After("L19")]
            /\ UNCHANGED exc
    /\ UNCHANGED <<heap, live, input, chunk_size, documents,
                   full_document_content, json_data, chunked_content_list,
                   chunk_offset, iter_pos, idx, chunked_content, result,
                   splitter_calls>>

\* Line 20 with the JSONDecodeError caught and an empty object in its place.
ParseCatching(t) ==
    /\ pc[t] = "L20"
    /\ Ran(t)
    /\ LET r == JsonLoads(full_document_content[t])
       IN  json_data' = [json_data EXCEPT
                             ![t] = IF r.ok THEN r.val ELSE EmptyDict]
    /\ pc' = [pc EXCEPT ![t] = After("L20")]
    /\ UNCHANGED <<heap, live, input, chunk_size, documents,
                   full_document_content, document_url, chunked_content_list,
                   chunk_offset, iter_pos, idx, chunked_content, result, exc,
                   splitter_calls>>

\* Line 20: json.loads; its JSONDecodeError is not caught.
Parse(t) ==
    /\ pc[t] = "L20"
    /\ Ran(t)
    /\ LET r == JsonLoads(full_document_content[t])
       IN  IF r.ok
           THEN /\ json_data' = [json_data EXCEPT ![t] = r.val]
                /\ pc' = [pc EXCEPT ![t] = After("L20")]
                /\ UNCHANGED exc
           ELSE /\ Raise(t, "JSONDecodeError", 20)
                /\ UNCHANGED json_data
    /\ UNCHANGED <<heap, live, input, chunk_size, documents,
                   full_document_content, document_url, chunked_content_list,
                   chunk_offset, iter_pos, idx, chunked_content, result,
                   splitter_calls>>

\* Lines 21-22: a splitter of this call's own, and its split_json.
Split(t) ==
    /\ pc[t] = "L22"
    /\ Ran(t)
    /\ splitter_calls' = [splitter_calls EXCEPT ![t] = @ + 1]
    /\ LET r == SplitJson(json_data[t], chunk_size[t])
       IN  IF r.ok
           THEN /\ chunked_content_list' =
                       [chunked_content_list EXCEPT ![t] = r.chunks]
                /\ pc' = [pc EXCEPT ![t] = After("L22")]
                /\ UNCHANGED exc
           ELSE /\ Raise(t, "IndexError", 22)
                /\ UNCHANGED chunked_content_list
    /\ UNCHANGED <<heap, live, input, chunk_size, documents,
                   full_document_content, document_url, json_data,
                   chunk_offset, iter_pos, idx, chunked_content, result>>

\* Lines 24-25: documents = []; chunk_offset = 0.
InitLoop(t) ==
    /\ pc[t] = "L24"
    /\ Ran(t)
    /\ LET r == NewDocuments(t)
       IN  /\ heap' = [heap EXCEPT ![r] = <<>>]
           /\ live' = live \cup {r}
           /\ documents' = [documents EXCEPT ![t] = r]
    /\ chunk_offset' = [chunk_offset EXCEPT ![OffsetCell(t)] = 0]
    /\ iter_pos' = [iter_pos EXCEPT ![t] = 0]
    /\ pc' = [pc EXCEPT ![t] = After("L24")]
    /\ UNCHANGED <<input, chunk_size, full_document_content, document_url,
                   json_data, chunked_content_list, idx, chunked_content,
                   result, exc, splitter_calls>>

\* Line 26: enumerate yields the next (idx, chunked_content), or the loop ends.
For(t) ==
    /\ pc[t] = "L26"
    /\ Ran(t)
    /\ IF iter_pos[t] < Len(chunked_content_list[t])
       THEN /\ idx' = [idx EXCEPT ![t] = EnumIndex(iter_pos[t])]
            /\ chunked_content' =
                   [chunked_content EXCEPT
                        ![t] = chunked_content_list[t][iter_pos[t] + 1]]
            /\ iter_pos' = [iter_pos EXCEPT ![t] = @ + 1]
            /\ pc' = [pc EXCEPT ![t] = "L27"]
       ELSE /\ pc' = [pc EXCEPT ![t] = "L37"]
            /\ UNCHANGED <<idx, chunked_content, iter_pos>>
    /\ UNCHANGED <<heap, live, input, chunk_size, documents,
                   full_document_content, document_url, json_data,
                   chunked_content_list, chunk_offset, result, exc,
                   splitter_calls>>

\* Lines 27-34: documents.append(SourceDocument.from_metadata(...)).
AppendDocument(t) ==
    /\ pc[t] = "L27"
    /\ Ran(t)
    /\ heap' = [heap EXCEPT
                    ![documents[t]] =
                        Append(@, FromMetadata(ChunkText(chunked_content[t]),
                                               document_url[t],
                                               OffsetMetadata(chunk_offset[OffsetCell(t)]),
                                               idx[t]))]
    /\ pc' = [pc EXCEPT ![t] = "L36"]
    /\ UNCHANGED <<live, input, chunk_size, documents, full_document_content,
                   document_url, json_data, chunked_content_list,
                   chunk_offset, iter_pos, idx, chunked_content, result, exc,
                   splitter_calls>>

\* Line 36: chunk_offset += len(chunked_content).
Advance(t) ==
    /\ pc[t] = "L36"
    /\ Ran(t)
    /\ chunk_offset' = [chunk_offset EXCEPT
                            ![OffsetCell(t)] = @ + OffsetStep(chunked_content[t])]
    /\ pc' = [pc EXCEPT ![t] = "L26"]
    /\ UNCHANGED <<heap, live, input, chunk_size, documents,
                   full_document_content, document_url, json_data,
                   chunked_content_list, iter_pos, idx, chunked_content,
                   result, exc, splitter_calls>>

\* Line 37: return documents.
Return(t) ==
    /\ pc[t] = "L37"
    /\ Ran(t)
    /\ result' = [result EXCEPT ![t] = documents[t]]
    /\ pc' = [pc EXCEPT ![t] = "done"]
    /\ UNCHANGED <<heap, live, input, chunk_size, documents,
                   full_document_content, document_url, json_data,
                   chunked_content_list, chunk_offset, iter_pos, idx,
                   chunked_content, exc, splitter_calls>>

Step(t) ==
    \/ JoinContent(t)
    \/ ReadUrl(t)
    \/ Parse(t)
    \/ Split(t)
    \/ InitLoop(t)
    \/ For(t)
    \/ AppendDocument(t)
    \/ Advance(t)
    \/ Return(t)

\* One thread, every call of Calls.
Next ==
    \/ Call(1, Calls)
    \/ Step(1)

Spec == Init /\ [][Next]_vars

\* Every thread, each with a call of ConcCalls, interleaved statement by
\* statement.
NextConc ==
    \/ \E t \in Threads : Call(t, ConcCalls)
    \/ \E t \in Threads : Step(t)

SpecConc == Init /\ [][NextConc]_vars

\* ------------------------------------------------------------ outcomes
Finished(t) == pc[t] \in {"done", "raised"}

Raised(type, line) ==
    [returned |-> FALSE, docs |-> <<>>, exc |-> [type |-> type, line |-> line]]

\* What the caller of thread t gets: the list returned, or the exception.
Outcome(t) ==
    [returned |-> result[t] # NoRef,
     docs |-> IF result[t] # NoRef THEN heap[result[t]] ELSE <<>>,
     exc |-> exc[t]]

\* The documents the loop of lines 26-36 builds from chunk i on.
RECURSIVE ChunkDocuments(_, _, _, _)
ChunkDocuments(chunks, url, i, offset) ==
    IF i > Len(chunks) THEN <<>>
    ELSE <<FromMetadata(ChunkText(chunks[i]), url, OffsetMetadata(offset),
                        EnumIndex(i - 1))>>
         \o ChunkDocuments(chunks, url, i + 1, offset + OffsetStep(chunks[i]))

\* chunk(docs, chunking) run from start to end with nothing else running.
ChunkAlone(docs, cs) ==
    IF docs = <<>> THEN Raised("IndexError", 19)
    ELSE
    LET parsed == JsonLoads(Join(docs))
        split == SplitJson(parsed.val, cs)
    IN  IF ~parsed.ok THEN Raised("JSONDecodeError", 20)
        ELSE IF ~split.ok THEN Raised("IndexError", 22)
        ELSE [returned |-> TRUE,
              docs |-> ChunkDocuments(split.chunks, FirstSource(docs), 1, 0),
              exc |-> NoExc]
\* ------------------------------------------------------------ claims
\* metadata["offset"] of a document chunk returned.
OffsetOf(d) == d.metadata.offset

\* The contents of docs one after the other, nothing between them.
RECURSIVE PlainJoin(_)
PlainJoin(docs) ==
    IF docs = <<>> THEN <<>> ELSE docs[1].content \o PlainJoin(Tail(docs))

Returned(t) == heap[result[t]]

\* C1: in the list a call returns, the first offset is 0 and each later
\* offset is the one before it plus the number of characters of the content
\* of the document before it.
C1_OffsetsAddContentLengths ==
    \A t \in Threads :
        pc[t] = "done" =>
            /\ Returned(t) # <<>> => OffsetOf(Returned(t)[1]) = 0
            /\ \A k \in 1..(Len(Returned(t)) - 1) :
                   OffsetOf(Returned(t)[k + 1]) =
                       OffsetOf(Returned(t)[k]) + Len(Returned(t)[k].content)

\* C2: a call on valid JSON that the splitter splits into N fragments returns,
\* and returns N documents; the i-th has idx i-1 and the text of the i-th
\* fragment as content.
C2_OneDocumentPerFragment ==
    \A t \in Threads :
        /\ pc[t] = "done" =>
               /\ Len(Returned(t)) = Len(chunked_content_list[t])
               /\ \A i \in 1..Len(Returned(t)) :
                      /\ Returned(t)[i].idx = i - 1
                      /\ Returned(t)[i].content = PyStr(chunked_content_list[t][i])
        /\ pc[t] = "raised" /\ input[t] # <<>> =>
               LET parsed == JsonLoads(PlainJoin(input[t]))
               IN  ~(parsed.ok /\ SplitJson(parsed.val, chunk_size[t]).ok)

C2_Witness ==
    /\ pc[1] = "done"
    /\ Len(chunked_content_list[1]) = 3
    /\ Len(Returned(1)) = 3

\* C3: every document returned has the source of the first input document,
\* whatever the other input documents' sources.
C3_UrlOfFirstDocument ==
    \A t \in Threads :
        pc[t] = "done" =>
            \A i \in 1..Len(Returned(t)) :
                Returned(t)[i].document_url = input[t][1].source

C3_Witness ==
    /\ pc[1] = "done"
    /\ Len(input[1]) = 2
    /\ input[1][2].source # input[1][1].source
    /\ Len(Returned(1)) = 3
    /\ \A i \in 1..3 : Returned(1)[i].document_url = input[1][1].source

\* C4: when the joined contents of a non-empty input are not valid JSON, the
\* call ends with the JSONDecodeError of line 20, returns nothing and never
\* creates an output list.
C4_MalformedInputRaises ==
    \A t \in Threads :
        pc[t] # "idle" /\ input[t] # <<>>
          /\ ~JsonLoads(PlainJoin(input[t])).ok =>
            /\ pc[t] # "done"
            /\ result[t] = NoRef
            /\ FreshRef(t) \notin live
            /\ pc[t] = "raised" => exc[t] = [type |-> "JSONDecodeError", line |-> 20]

C4_Witness ==
    /\ pc[1] = "raised"
    /\ Len(input[1]) = 1
    /\ input[1][1].content = C_Bad
    /\ exc[1].type = "JSONDecodeError"

\* C5: a call with an empty list never gets past line 19: it ends with an
\* IndexError and returns no list.
C5_EmptyInputRaises ==
    \A t \in Threads :
        pc[t] # "idle" /\ input[t] = <<>> =>
            /\ pc[t] \in {"L16", "L19", "raised"}
            /\ result[t] = NoRef
            /\ pc[t] = "raised" => exc[t].type = "IndexError"

C5_Witness ==
    /\ pc[1] = "raised"
    /\ input[1] = <<>>
    /\ exc[1].type = "IndexError"
    /\ result[1] = NoRef

\* A single input document whose content is a JSON object with a json.dumps
\* size below chunk_size.
SmallObject(t) ==
    /\ Len(input[t]) = 1
    /\ LET parsed == JsonLoads(input[t][1].content)
       IN  /\ parsed.ok
           /\ parsed.val.t = "dict"
           /\ JsonSize(parsed.val) < chunk_size[t]

\* Exactly one document, idx 0, offset 0, the text of the parsed object.
OneChunkOfWholeObject(t) ==
    /\ pc[t] = "done"
    /\ Returned(t) =
           <<[content |-> PyStr(JsonLoads(input[t][1].content).val),
              document_url |-> input[t][1].source,
              metadata |-> [offset |-> 0],
              idx |-> 0]>>

HoldsOnlyEmptyObject(val) ==
    \/ val.v = <<>>
    \/ Len(val.v) = 1 /\ val.v[1].v = EmptyDict

C8_InputsUntouched ==
    \A t \in Threads :
        pc[t] # "idle" =>
            /\ heap[InRef(t)] = input[t]
            /\ result[t] # NoRef => \A u \in Threads : result[t] # InRef(u)

C8_Witness ==
    /\ pc[1] = "done"
    /\ Len(input[1]) = 2
    /\ heap[InRef(1)] = input[1]
    /\ result[1] = FreshRef(1)
    /\ Len(heap[FreshRef(1)]) = 3

\* C9: whatever the interleaving of the statements of concurrent calls, each
\* call ends with what it ends with when run alone.
C9_CallsIndependent ==
    \A t \in Threads :
        Finished(t) => Outcome(t) = ChunkAlone(input[t], chunk_size[t])

C9_Witness ==
    /\ \A t \in Threads : pc[t] = "done" /\ overlapped[t]
    /\ Len(Returned(1)) >= 2
    /\ Len(Returned(2)) >= 2

\* C10: the source URL is read before the text is parsed and before the
\* splitter is called; for an empty list the call fails at line 19 with an
\* IndexError, never with a JSONDecodeError, nothing is parsed and the
\* splitter is not called.
C10_UrlReadBeforeParse ==
    \A t \in Threads :
        /\ (json_data[t] # NoValue \/ splitter_calls[t] > 0
              \/ exc[t].type = "JSONDecodeError") =>
               document_url[t] \in Sources
        /\ pc[t] # "idle" /\ input[t] = <<>> =>
               /\ exc[t].type # "JSONDecodeError"
               /\ json_data[t] = NoValue
               /\ splitter_calls[t] = 0
               /\ pc[t] = "raised" => exc[t] = [type |-> "IndexError", line |-> 19]

C10_Witness ==
    /\ pc[1] = "raised"
    /\ input[1] = <<>>
    /\ full_document_content[1] = <<>>
    /\ ~JsonLoads(full_document_content[1]).ok
    /\ exc[1].line = 19
    /\ splitter_calls[1] = 0
====
